---- MODULE Spec2Model ----
(***************************************************************************)
(* jedit: the text document (text buffer and line-offset index) and the    *)
(* command layer that is meant to edit it.                                  *)
(*                                                                          *)
(* A string is modelled as the sequence of its UTF-8 bytes; offsets are     *)
(* 0-based byte offsets as in the source, so the byte at offset i of s is   *)
(* s[i + 1].                                                                *)
(***************************************************************************)
EXTENDS Integers, Sequences, FiniteSets, TLC

VARIABLES
    line_offsets,   \* TextDocument.line_offsets : Vec<usize>
    text_buffer,    \* TextDocument.text_buffer  : String
    op,             \* the operation that ran last
    outcome,        \* how it ended: "Ok", "Err", "Some", "None", "panic"
    lineno,         \* argument of the last getline
    line,           \* slice returned by the last getline (<<>> when None)
    command,        \* the command handed to the last CommandManager::execute
    before,         \* the document as it was when that execute was entered
    loaded_text,    \* the content file_io::load returned to the last init
    lines_before,   \* line_count() when the last init or clear was entered
    window_ptr,     \* slot 0 of the window's extra storage: 0 or the address
    instance,       \* the boxed EditorView: "none", "live" or "freed"
    view_line_count, \* EditorView.line_count
    font_height,    \* EditorView.font_height
    frees,          \* how many times the box was dropped
    used_freed,     \* a handler dereferenced the box after it was dropped
    lresult,        \* what wndproc returned for the last message
    ncdestroys      \* how many WM_NCDESTROY messages were delivered

docVars == <<line_offsets, text_buffer>>
obsVars == <<lineno, line, command, before, loaded_text, lines_before>>
viewVars == <<window_ptr, instance, view_line_count, font_height, frees,
              used_freed, lresult, ncdestroys>>

vars == <<docVars, op, outcome, obsVars, viewVars>>

---------------------------------------------------------------------------
(* Bounds *)

\* longest file content enumerated byte by byte
MaxLen == 4

\* most WM_NCDESTROY messages delivered to the window
MaxDestroys == 2

---------------------------------------------------------------------------
(* Bytes and strings *)

LF == "\n"
CR == "\r"
\* the two bytes of one two-byte UTF-8 character
Lead == "C3"
Cont == "A9"

Bytes == {"a", LF, CR, Lead, Cont}

\* A Rust String is valid UTF-8: a lead byte is followed by its
\* continuation byte and a continuation byte follows a lead byte.
IsUtf8(s) ==
    \A i \in 1..Len(s) :
        /\ s[i] = Lead => (i < Len(s) /\ s[i + 1] = Cont)
        /\ s[i] = Cont => (i > 1 /\ s[i - 1] = Lead)

BoundedStrings ==
    UNION { {s \in [1..n -> Bytes] : IsUtf8(s)} : n \in 0..MaxLen }

\* "ab\ncd", "a\r\nb", "hello"
Fixtures ==
    { <<"a", "b", LF, "c", "d">>,
      <<"a", CR, LF, "b">>,
      <<"h", "e", "l", "l", "o">> }

Contents == BoundedStrings \cup Fixtures

\* str::is_char_boundary
is_char_boundary(s, i) ==
    \/ i = 0
    \/ i = Len(s)
    \/ (i < Len(s) /\ s[i + 1] # Cont)

\* width in bytes of the character that starts at a byte
len_utf8(b) == IF b = Lead THEN 2 ELSE 1

ends_with(s, b) == Len(s) > 0 /\ s[Len(s)] = b

---------------------------------------------------------------------------
(* TextDocument *)

Document(lo, tb) == [line_offsets |-> lo, text_buffer |-> tb]

\* TextDocument::new
new == Document(<<0>>, <<>>)

\* Vec::truncate
truncate(v, n) == IF Len(v) > n THEN SubSeq(v, 1, n) ELSE v

\* the loop with "\r" taken for a line end as well
RECURSIVE scan_char_indices_cr(_, _, _)
scan_char_indices_cr(text, i, offsets) ==
    IF i >= Len(text) THEN offsets
    ELSE scan_char_indices_cr(text, i + len_utf8(text[i + 1]),
                              IF text[i + 1] = LF \/ text[i + 1] = CR
                              THEN Append(offsets, i + 1)
                              ELSE offsets)

\* the loop recording the offset one past the right one
RECURSIVE scan_char_indices_past(_, _, _)
scan_char_indices_past(text, i, offsets) ==
    IF i >= Len(text) THEN offsets
    ELSE scan_char_indices_past(text, i + len_utf8(text[i + 1]),
                                IF text[i + 1] = LF
                                THEN Append(offsets, i + 2)
                                ELSE offsets)

\* the for loop of init_line_offsets over text_buffer.char_indices():
\* i is the byte offset of the next character
RECURSIVE scan_char_indices(_, _, _)
scan_char_indices(text, i, offsets) ==
    IF i >= Len(text) THEN offsets
    ELSE scan_char_indices(text, i + len_utf8(text[i + 1]),
                           IF text[i + 1] = LF
                           THEN Append(offsets, i + 1)
                           ELSE offsets)

\* TextDocument::init_line_offsets
init_line_offsets(doc) ==
    [doc EXCEPT !.line_offsets =
        scan_char_indices(doc.text_buffer, 0, truncate(doc.line_offsets, 1))]

\* clear that forgets to reset line_offsets
clear_keeps_offsets(doc) == Document(doc.line_offsets, <<>>)

\* clear that forgets to empty text_buffer
clear_keeps_text(doc) == Document(<<0>>, doc.text_buffer)

\* TextDocument::clear
clear(doc) == Document(<<0>>, <<>>)

\* file_io::load: an error, or the content of the file
LoadResults ==
    {[ok |-> FALSE, content |-> <<>>]}
        \cup {[ok |-> TRUE, content |-> s] : s \in Contents}

\* init that skips clear and lets the file be read onto the end of
\* text_buffer, as read_to_string does with a buffer that is not empty
init_appends(doc, l) ==
    IF ~l.ok
    THEN [doc |-> doc, result |-> "Err"]
    ELSE [doc |-> init_line_offsets(
                      [doc EXCEPT !.text_buffer = doc.text_buffer \o l.content]),
          result |-> "Ok"]

\* init that loads before it clears, so that a failed load returns early
init_load_first(doc, l) ==
    IF ~l.ok
    THEN [doc |-> doc, result |-> "Err"]
    ELSE [doc |-> init_line_offsets(
                      [clear(doc) EXCEPT !.text_buffer = l.content]),
          result |-> "Ok"]

\* TextDocument::init, given what file_io::load returned
init(doc, loaded) ==
    LET cleared == clear(doc) IN
    IF ~loaded.ok
    THEN [doc |-> cleared, result |-> "Err"]
    ELSE [doc |-> init_line_offsets(
                      [cleared EXCEPT !.text_buffer = loaded.content]),
          result |-> "Ok"]

\* TextDocument::line_count
line_count(doc) == Len(doc.line_offsets)

\* TextDocument::len
len(doc) == Len(doc.text_buffer)

None == [some |-> FALSE, text |-> <<>>, panic |-> FALSE]
Some(s) == [some |-> TRUE, text |-> s, panic |-> FALSE]
SlicePanic == [some |-> FALSE, text |-> <<>>, panic |-> TRUE]

\* the two trims in the other order: "\r" first, then "\n"
trim_newline_cr_first(s) ==
    LET s1 == IF ends_with(s, CR) THEN SubSeq(s, 1, Len(s) - 1) ELSE s
    IN  IF ends_with(s1, LF) THEN SubSeq(s1, 1, Len(s1) - 1) ELSE s1

\* the two trailing trims of getline: "\n" first, then "\r"
trim_newline(s) ==
    LET s1 == IF ends_with(s, LF) THEN SubSeq(s, 1, Len(s) - 1) ELSE s
    IN  IF ends_with(s1, CR) THEN SubSeq(s1, 1, Len(s1) - 1) ELSE s1

\* TextDocument::getline
getline(doc, n) ==
    LET num_lines == Len(doc.line_offsets) IN
    IF n >= num_lines THEN None
    ELSE
        LET start_offset == doc.line_offsets[n + 1]
            end_offset == IF n + 1 < num_lines
                          THEN doc.line_offsets[n + 2]
                          ELSE Len(doc.text_buffer)
        IN  IF start_offset > end_offset \/ end_offset > Len(doc.text_buffer)
            THEN None
            ELSE IF ~ is_char_boundary(doc.text_buffer, start_offset)
                    \/ ~ is_char_boundary(doc.text_buffer, end_offset)
            THEN SlicePanic
            ELSE Some(trim_newline(
                     SubSeq(doc.text_buffer, start_offset + 1, end_offset)))

---------------------------------------------------------------------------
(* Commands and CommandManager *)

\* InsertCommand::new
InsertCommand(pos, text) == [kind |-> "Insert", pos |-> pos, text |-> text]
\* DeleteCommand::new
DeleteCommand(pos, n) == [kind |-> "Delete", pos |-> pos, len |-> n]

NoCommand == [kind |-> "None"]

\* InsertCommand::execute: todo!() panics before anything is touched
InsertCommand_execute(cmd, doc) ==
    [doc |-> doc, command |-> cmd, result |-> "panic"]

\* DeleteCommand::execute: todo!() panics before anything is touched
DeleteCommand_execute(cmd, doc) ==
    [doc |-> doc, command |-> cmd, result |-> "panic"]

\* CommandManager::execute: dynamic dispatch on the boxed command; the
\* println after it runs only when the command returned
CommandManager_execute(cmd, doc) ==
    IF cmd.kind = "Insert"
    THEN InsertCommand_execute(cmd, doc)
    ELSE DeleteCommand_execute(cmd, doc)

\* positions and lengths the callers try: in range, at the end, past it
Positions == 0..(MaxLen + 1)

InsertTexts == { <<"a">>, <<LF>>, <<"a", LF>> }

Commands ==
    {InsertCommand(p, t) : p \in Positions, t \in InsertTexts}
        \cup {DeleteCommand(p, n) : p \in Positions, n \in Positions}
        \cup { InsertCommand(5, <<" ", "w", "o", "r", "l", "d">>),
               DeleteCommand(1, 10) }

---------------------------------------------------------------------------
(* The state machine *)

\* a thread that panicked is gone
Running == outcome # "panic"

\* no editor window: the document is used on its own
NoWindow ==
    /\ window_ptr = 0
    /\ instance = "none"
    /\ view_line_count = 0
    /\ font_height = 0
    /\ frees = 0
    /\ used_freed = FALSE
    /\ lresult = 0
    /\ ncdestroys = 0

Init ==
    /\ line_offsets = new.line_offsets
    /\ text_buffer = new.text_buffer
    /\ op = "new"
    /\ outcome = "Ok"
    /\ lineno = 0
    /\ line = <<>>
    /\ command = NoCommand
    /\ before = new
    /\ loaded_text = <<>>
    /\ lines_before = 0
    /\ NoWindow

\* lineno, line, command, before, loaded_text and lines_before describe the
\* last operation only
NoGetline == lineno' = 0 /\ line' = <<>>
NoExecute == command' = NoCommand /\ before' = new
NoLoad == loaded_text' = <<>>
NoMutation == lines_before' = 0

DocInit ==
    /\ Running
    /\ \E l \in LoadResults :
         LET r == init(Document(line_offsets, text_buffer), l) IN
         /\ line_offsets' = r.doc.line_offsets
         /\ text_buffer' = r.doc.text_buffer
         /\ outcome' = r.result
         /\ loaded_text' = l.content
    /\ lines_before' = line_count(Document(line_offsets, text_buffer))
    /\ op' = "init"
    /\ NoGetline
    /\ NoExecute
    /\ UNCHANGED viewVars

DocClear ==
    /\ Running
    /\ LET d == clear(Document(line_offsets, text_buffer)) IN
         /\ line_offsets' = d.line_offsets
         /\ text_buffer' = d.text_buffer
    /\ lines_before' = line_count(Document(line_offsets, text_buffer))
    /\ op' = "clear"
    /\ outcome' = "Ok"
    /\ NoGetline
    /\ NoExecute
    /\ NoLoad
    /\ UNCHANGED viewVars

DocGetline ==
    /\ Running
    /\ \E n \in 0..(MaxLen + 2) :
         LET r == getline(Document(line_offsets, text_buffer), n) IN
         /\ lineno' = n
         /\ line' = r.text
         /\ outcome' = IF r.panic THEN "panic"
                       ELSE IF r.some THEN "Some" ELSE "None"
    /\ op' = "getline"
    /\ NoExecute
    /\ NoLoad
    /\ NoMutation
    /\ UNCHANGED <<line_offsets, text_buffer>>
    /\ UNCHANGED viewVars

Execute ==
    /\ Running
    /\ \E cmd \in Commands :
         LET d == Document(line_offsets, text_buffer)
             r == CommandManager_execute(cmd, d)
         IN  /\ line_offsets' = r.doc.line_offsets
             /\ text_buffer' = r.doc.text_buffer
             /\ command' = r.command
             /\ outcome' = r.result
             /\ before' = d
    /\ op' = "execute"
    /\ NoGetline
    /\ NoLoad
    /\ NoMutation
    /\ UNCHANGED viewVars

Next == DocInit \/ DocClear \/ DocGetline \/ Execute

Spec == Init /\ [][Next]_vars

---------------------------------------------------------------------------
(* EditorView and its window procedure *)

\* tmHeight + tmExternalLeading of the selected font: some positive height
FontHeight == 16

\* the window's extra storage and the EditorView it may point to
Window ==
    [window_ptr |-> window_ptr,
     instance |-> instance,
     document |-> Document(line_offsets, text_buffer),
     line_count |-> view_line_count,
     font_height |-> font_height,
     frees |-> frees,
     used_freed |-> used_freed]

Handled(w, result, ret) == [w |-> w, result |-> result, lresult |-> ret]

\* EditorView::from_hwnd: None for a null pointer, else the reference
from_hwnd(w) == w.window_ptr # 0

\* &mut *ptr: using the reference of a box that was dropped
deref(w) ==
    IF w.instance = "live" THEN w ELSE [w EXCEPT !.used_freed = TRUE]

\* EditorView::update_font_metrics: GetDC or GetTextMetricsW may fail
update_font_metrics(w, metrics_ok) ==
    IF metrics_ok
    THEN [w |-> [w EXCEPT !.font_height = FontHeight], result |-> "Ok"]
    ELSE [w |-> w, result |-> "Err"]

\* EditorView::on_set_font
on_set_font(w, metrics_ok) == update_font_metrics(w, metrics_ok)

\* wndproc, WM_SETFONT
wm_setfont(w, metrics_ok) ==
    IF from_hwnd(w)
    THEN LET r == on_set_font(deref(w), metrics_ok)
         IN  Handled(r.w, r.result, 0)
    ELSE Handled(w, "Ok", 0)

\* EditorView::new: sends WM_SETFONT to the window, whose pointer is not
\* stored yet, then builds the view around an empty document
EditorView_new(w, metrics_ok) ==
    LET sent == wm_setfont(w, metrics_ok).w
        view == [sent EXCEPT !.document = new,
                             !.line_count = 0,
                             !.font_height = 0]
    IN  update_font_metrics(view, metrics_ok).w

\* wndproc, WM_NCCREATE
wm_nccreate(w, metrics_ok) ==
    LET view == EditorView_new(w, metrics_ok)
    IN  Handled([view EXCEPT !.instance = "live", !.window_ptr = 1], "Ok", 1)

\* WM_NCDESTROY that drops the box and leaves the pointer in the window
wm_ncdestroy_keeps_ptr(w) ==
    IF w.window_ptr # 0
    THEN Handled([w EXCEPT !.instance = "freed",
                           !.frees = w.frees + 1,
                           !.used_freed = (w.used_freed \/ w.instance # "live")],
                 "Ok", 0)
    ELSE Handled(w, "Ok", 0)

\* wndproc, WM_NCDESTROY
wm_ncdestroy(w) ==
    IF w.window_ptr # 0
    THEN Handled([w EXCEPT !.instance = "freed",
                           !.frees = w.frees + 1,
                           !.used_freed = (w.used_freed \/ w.instance # "live"),
                           !.window_ptr = 0],
                 "Ok", 0)
    ELSE Handled(w, "Ok", 0)

\* EditorView::on_paint: an error when BeginPaint fails; the division by
\* font_height panics when the metrics were never obtained
on_paint(w, paint_ok) ==
    IF ~paint_ok THEN [w |-> w, result |-> "Err"]
    ELSE IF w.font_height = 0 THEN [w |-> w, result |-> "panic"]
    ELSE [w |-> w, result |-> "Ok"]

\* wndproc, WM_PAINT
wm_paint(w, paint_ok) ==
    IF from_hwnd(w)
    THEN LET r == on_paint(deref(w), paint_ok)
         IN  Handled(r.w, r.result, 0)
    ELSE Handled(w, "Ok", 0)

\* EditorView::clear_file
clear_file(w) ==
    LET d == clear(w.document)
    IN  [w |-> [w EXCEPT !.document = d, !.line_count = line_count(d)],
         result |-> "Ok"]

\* EditorView::open_file, given what file_io::load returns
open_file(w, l) ==
    LET c == clear_file(w).w
        r == init(c.document, l)
    IN  IF r.result = "Err"
        THEN [w |-> [c EXCEPT !.document = r.doc], result |-> "Err"]
        ELSE [w |-> [c EXCEPT !.document = r.doc,
                              !.line_count = line_count(r.doc)],
              result |-> "Ok"]

\* wndproc, EVM_OPENFILE
evm_openfile(w, l) ==
    IF from_hwnd(w)
    THEN LET r == open_file(deref(w), l)
         IN  Handled(r.w, r.result, IF r.result = "Ok" THEN 1 ELSE 0)
    ELSE Handled(w, "Ok", 0)

\* wndproc, EVM_CLEARFILE
evm_clearfile(w) ==
    IF from_hwnd(w)
    THEN LET r == clear_file(deref(w))
         IN  Handled(r.w, r.result, IF r.result = "Ok" THEN 1 ELSE 0)
    ELSE Handled(w, "Ok", 0)

\* the window before its first message: the extra storage is zeroed
InitView ==
    /\ line_offsets = new.line_offsets
    /\ text_buffer = new.text_buffer
    /\ op = "CreateWindowExW"
    /\ outcome = "Ok"
    /\ lineno = 0
    /\ line = <<>>
    /\ command = NoCommand
    /\ before = new
    /\ loaded_text = <<>>
    /\ lines_before = 0
    /\ NoWindow

\* wndproc has returned h for message m
Delivered(m, h) ==
    /\ op' = m
    /\ outcome' = h.result
    /\ lresult' = h.lresult
    /\ window_ptr' = h.w.window_ptr
    /\ instance' = h.w.instance
    /\ line_offsets' = h.w.document.line_offsets
    /\ text_buffer' = h.w.document.text_buffer
    /\ view_line_count' = h.w.line_count
    /\ font_height' = h.w.font_height
    /\ frees' = h.w.frees
    /\ used_freed' = h.w.used_freed
    /\ UNCHANGED obsVars

\* CreateWindowExW delivers WM_NCCREATE once, to a window without a view
WmNcCreate ==
    /\ Running
    /\ instance = "none"
    /\ \E metrics_ok \in BOOLEAN :
         Delivered("WM_NCCREATE", wm_nccreate(Window, metrics_ok))
    /\ UNCHANGED ncdestroys

WmNcDestroy ==
    /\ Running
    /\ ncdestroys < MaxDestroys
    /\ Delivered("WM_NCDESTROY", wm_ncdestroy(Window))
    /\ ncdestroys' = ncdestroys + 1

WmPaint ==
    /\ Running
    /\ \E paint_ok \in BOOLEAN :
         Delivered("WM_PAINT", wm_paint(Window, paint_ok))
    /\ UNCHANGED ncdestroys

WmSetFont ==
    /\ Running
    /\ \E metrics_ok \in BOOLEAN :
         Delivered("WM_SETFONT", wm_setfont(Window, metrics_ok))
    /\ UNCHANGED ncdestroys

EvmOpenFile ==
    /\ Running
    /\ \E l \in LoadResults :
         Delivered("EVM_OPENFILE", evm_openfile(Window, l))
    /\ UNCHANGED ncdestroys

EvmClearFile ==
    /\ Running
    /\ Delivered("EVM_CLEARFILE", evm_clearfile(Window))
    /\ UNCHANGED ncdestroys

NextView ==
    \/ WmNcCreate
    \/ WmNcDestroy
    \/ WmPaint
    \/ WmSetFont
    \/ EvmOpenFile
    \/ EvmClearFile

SpecView == InitView /\ [][NextView]_vars

---------------------------------------------------------------------------
(* Line index *)

Doc == Document(line_offsets, text_buffer)

NumLF(s) == Cardinality({i \in 1..Len(s) : s[i] = LF})

\* "\r" not followed by "\n"
NumLoneCR(s) ==
    Cardinality({i \in 1..Len(s) :
                    s[i] = CR /\ (i = Len(s) \/ s[i + 1] # LF)})

HasCRLF(s) == \E i \in 1..Len(s) : s[i] = CR /\ i < Len(s) /\ s[i + 1] = LF

HasBareLF(s) == \E i \in 1..Len(s) : s[i] = LF /\ (i = 1 \/ s[i - 1] # CR)

C9_LineStartsWellFormed ==
    /\ Len(line_offsets) >= 1
    /\ line_offsets[1] = 0
    /\ \A i \in 1..(Len(line_offsets) - 1) :
           line_offsets[i] < line_offsets[i + 1]
    /\ Len(line_offsets) = line_count(Doc)
    /\ \A i \in 1..Len(line_offsets) : line_offsets[i] <= len(Doc)

\* a loaded document with three line starts, the last at the end
C9_ThreeStartsLoaded ==
    /\ op = "init" /\ outcome = "Ok"
    /\ Len(line_offsets) = 3
    /\ line_offsets[3] = Len(text_buffer)

\* the bytes of line n with their terminator: from its start to the next
\* line start, or to the end of the content for the last line
RawLine(n) ==
    SubSeq(text_buffer, line_offsets[n + 1] + 1,
           IF n + 2 <= Len(line_offsets)
           THEN line_offsets[n + 2]
           ELSE Len(text_buffer))

\* s is t followed by nothing, "\n", "\r" or "\r\n", and t is the shortest
\* such prefix that the two removals allow
Stripped(s) ==
    IF Len(s) >= 2 /\ s[Len(s) - 1] = CR /\ s[Len(s)] = LF
    THEN SubSeq(s, 1, Len(s) - 2)
    ELSE IF Len(s) >= 1 /\ (s[Len(s)] = LF \/ s[Len(s)] = CR)
    THEN SubSeq(s, 1, Len(s) - 1)
    ELSE s

\* C10: getline returns None exactly for line numbers >= line_count();
\* otherwise the line's bytes with one trailing "\n" and then one trailing
\* "\r" removed. "ab\ncd" has the two lines "ab" and "cd", "a\r\nb" the two
\* lines "a" and "b".
C10_GetlineResult ==
    op = "getline" =>
        /\ outcome \in {"Some", "None"}
        /\ outcome = "None" <=> lineno >= line_count(Doc)
        /\ outcome = "Some" => line = Stripped(RawLine(lineno))
        /\ text_buffer = <<"a", "b", LF, "c", "d">> =>
               /\ line_count(Doc) = 2
               /\ lineno = 0 => line = <<"a", "b">>
               /\ lineno = 1 => line = <<"c", "d">>
        /\ text_buffer = <<"a", CR, LF, "b">> =>
               /\ line_count(Doc) = 2
               /\ lineno = 0 => line = <<"a">>
               /\ lineno = 1 => line = <<"b">>

\* line 0 of "a\r\nb" was read
C10_CrLfLineRead ==
    /\ op = "getline"
    /\ text_buffer = <<"a", CR, LF, "b">>
    /\ lineno = 0
    /\ outcome = "Some"
    /\ line = <<"a">>

---------------------------------------------------------------------------
(* Commands *)

\* content with n bytes removed at offset pos
Removed(s, pos, n) == SubSeq(s, 1, pos) \o SubSeq(s, pos + n + 1, Len(s))

\* content with text inserted at offset pos
Inserted(s, pos, text) ==
    SubSeq(s, 1, pos) \o text \o SubSeq(s, pos + 1, Len(s))

\* C4: executing Delete{pos, len} with pos + len <= content.len() removes
\* the bytes content[pos..pos+len] (and keeps them for invert to put back).
C4_DeleteRemovesRange ==
    (/\ op = "execute"
     /\ command.kind = "Delete"
     /\ command.pos + command.len <= Len(before.text_buffer))
        => text_buffer =
               Removed(before.text_buffer, command.pos, command.len)

\* C5: a Delete that is out of range fails with OutOfRange, returned to
\* the caller, and leaves the content and the line index as they were.
C5_FailedApplyReturnsError ==
    (/\ op = "execute"
     /\ command.kind = "Delete"
     /\ command.pos + command.len > Len(before.text_buffer))
        => /\ outcome = "OutOfRange"
           /\ text_buffer = before.text_buffer
           /\ line_offsets = before.line_offsets

\* C6: applying Insert{5, " world"} to "hello" gives "hello world" (which
\* undo then takes back and redo restores).
C6_ApplyInsertsText ==
    (/\ op = "execute"
     /\ command = InsertCommand(5, <<" ", "w", "o", "r", "l", "d">>)
     /\ before.text_buffer = <<"h", "e", "l", "l", "o">>)
        => text_buffer = Inserted(before.text_buffer, command.pos,
                                  command.text)

---------------------------------------------------------------------------
(* Load, clear and the sanity check of getline *)

\* the line starts of a text computed from nothing but the text: 0, then
\* the offset after each "\n", in order
Rebuild(text) ==
    <<0>> \o SelectSeq([i \in 1..Len(text) |-> i], LAMBDA i : text[i] = LF)

\* C11: a successful load leaves exactly the loaded text as content and the
\* line index of that text alone, whatever was loaded before.
C11_LoadReplacesAll ==
    (op = "init" /\ outcome = "Ok") =>
        /\ text_buffer = loaded_text
        /\ line_offsets = Rebuild(loaded_text)

\* a non-empty text loaded over a document that had more lines
C11_FewerLinesLoaded ==
    /\ op = "init" /\ outcome = "Ok"
    /\ Len(text_buffer) > 0
    /\ lines_before > line_count(Doc)

\* C12: after clear the document is as a new one: no content, line starts
\* <<0>>, one line, and line 0 is the empty string.
C12_ClearResets ==
    op = "clear" =>
        /\ len(Doc) = 0
        /\ line_offsets = <<0>>
        /\ line_count(Doc) = 1
        /\ getline(Doc, 0) = Some(<<>>)
        /\ Doc = new

\* a document of several lines was cleared
C12_ClearedSeveralLines ==
    /\ op = "clear"
    /\ lines_before >= 2

\* C14: when init fails because the load failed, the document is empty
\* with line offsets <<0>>, whatever it held before.
C14_FailedInitLeavesCleared ==
    (op = "init" /\ outcome = "Err") =>
        /\ text_buffer = <<>>
        /\ line_offsets = <<0>>

\* a load failed on a document that held several lines
C14_FailedOverSeveralLines ==
    /\ op = "init" /\ outcome = "Err"
    /\ lines_before >= 2

\* start and end offset of line n as getline computes them
StartOffset(n) == line_offsets[n + 1]
EndOffset(n) ==
    IF n + 1 < Len(line_offsets) THEN line_offsets[n + 2] ELSE Len(text_buffer)

\* C16: for every line number below line_count() the offsets satisfy
\* start <= end <= len, so getline returns Some for it; it returns None
\* only from line_count() on.
C16_SanityCheckNeverFires ==
    /\ \A n \in 0..(MaxLen + 2) :
           IF n < line_count(Doc)
           THEN /\ StartOffset(n) <= EndOffset(n)
                /\ EndOffset(n) <= len(Doc)
                /\ getline(Doc, n).some
           ELSE getline(Doc, n) = None
    /\ (op = "getline" /\ lineno < line_count(Doc)) => outcome = "Some"

\* the last line was read where it starts at the very end of the content
C16_EmptyLastLineRead ==
    /\ op = "getline"
    /\ outcome = "Some"
    /\ lineno = line_count(Doc) - 1
    /\ Len(text_buffer) > 0
    /\ StartOffset(lineno) = Len(text_buffer)

---------------------------------------------------------------------------
(* The view's cached line count and the lifetime of the view *)

\* C15: while the view exists its line_count field equals
\* document.line_count().
C15_CachedLineCount ==
    instance = "live" => view_line_count = line_count(Doc)

\* C17: the view exists exactly while its pointer is stored; WM_NCCREATE
\* stores it, WM_NCDESTROY drops the box once and stores 0; no handler uses
\* a dropped box; without a view EVM_OPENFILE and EVM_CLEARFILE return 0;
\* a further WM_NCDESTROY drops nothing.
C17_ViewLifetime ==
    /\ ~ used_freed
    /\ frees <= 1
    /\ (instance = "live") <=> (window_ptr # 0)
    /\ (instance = "freed") <=> (frees = 1)
    /\ op = "WM_NCCREATE" => (instance = "live" /\ lresult = 1)
    /\ op = "WM_NCDESTROY" => (window_ptr = 0 /\ instance # "live")
    /\ (op \in {"EVM_OPENFILE", "EVM_CLEARFILE"} /\ instance # "live")
           => lresult = 0

\* a second WM_NCDESTROY was delivered to a window whose view was dropped
C17_DestroyedTwice ==
    /\ op = "WM_NCDESTROY"
    /\ ncdestroys = 2
    /\ instance = "freed"
    /\ frees = 1

====
